---- MODULE Spec2Model ----
(***************************************************************************)
(* Model of the BTS On-Time extraction pipeline                            *)
(* (src/preprocessing/flight_data_extract_by_month.py): column             *)
(* normalisation against CANON_MAP, the domestic and carrier filters, the  *)
(* projection onto OUTPUT_COLS, and the month-by-month driver in main().   *)
(*                                                                         *)
(* A DataFrame is a record [columns |-> sequence of column names,          *)
(* rows |-> sequence of rows], a row being the sequence of its cells in    *)
(* column order.  Cells are strings (read_csv is called with dtype=str);   *)
(* a missing cell is NaN.                                                  *)
(***************************************************************************)
EXTENDS Integers, Sequences, FiniteSets, TLC

VARIABLES
  batch, call, ret, ret2,                   \* a single function call
  pc, args, unit, frames, header_written,   \* main()
  exit_code,
  header, nread, eof, parts,                \* process_month()
  out, appends,                             \* the output file, the to_csv calls
  total, pending, log                       \* history of the run

fnvars  == <<batch, call, ret, ret2>>
runvars == <<pc, args, unit, frames, header_written, exit_code, header, nread,
             eof, parts, out, appends, total, pending, log>>
vars    == <<fnvars, runvars>>

----------------------------------------------------------------------------
(* Bounds of the model. *)

\* longest column list handed to standardize_columns in SpecStd
MaxCols == 3
\* most rows of a batch handed to a single filter call in SpecFn
MaxRows == 2
\* number of sub-sources (year, month) main() iterates over
MaxUnits == 2
\* most chunks read over a whole run
MaxChunks == 2

\* args.chunksize: the rows of a chunk (every chunk of a file but the last
\* is full)
chunksize == 2

----------------------------------------------------------------------------
(* Constants of the program. *)

OUTPUT_COLS ==
  <<"FL_DATE", "OP_UNIQUE_CARRIER", "MKT_UNIQUE_CARRIER", "OP_CARRIER_FL_NUM",
    "ORIGIN", "DEST", "CRS_DEP_TIME", "DEP_TIME", "WHEELS_OFF",
    "CRS_ARR_TIME", "ARR_TIME", "WHEELS_ON", "CANCELLED", "DIVERTED">>

US_TERRITORY_STATE_ABR == {"PR", "VI", "GU", "AS", "MP"}

CANON_MAP ==
  <<
    [canon |-> "FL_DATE",
     aliases |-> <<"FL_DATE", "FLIGHT_DATE", "FLIGHTDATE">>],
    [canon |-> "OP_UNIQUE_CARRIER",
     aliases |-> <<"OP_UNIQUE_CARRIER", "OPERATING_AIRLINE", "OPERATINGCARRIER",
                   "OP_CARRIER", "OPERATING_AIRLINE_IATA_CODE",
                   "OPERATINGAIRLINEIATACODE">>],
    [canon |-> "MKT_UNIQUE_CARRIER",
     aliases |-> <<"MKT_UNIQUE_CARRIER", "MARKETING_AIRLINE_NETWORK",
                   "MARKETINGCARRIER", "MKT_CARRIER", "MKTUNIQUECARRIER",
                   "REPORTING_AIRLINE", "IATA_CODE_REPORTING_AIRLINE">>],
    [canon |-> "OP_CARRIER_FL_NUM",
     aliases |-> <<"OP_CARRIER_FL_NUM", "OP_CARRIER_FLNUM", "FL_NUM", "FLIGHT_NUM",
                   "FLIGHT_NUMBER", "FLIGHT_NUMBER_REPORTING_AIRLINE",
                   "FLIGHT_NUMBER_OPERATING_AIRLINE", "FLIGHT_NUMBER_REPORTINGAIRLINE",
                   "FLIGHT_NUMBER_OPERATINGAIRLINE">>],
    [canon |-> "ORIGIN",
     aliases |-> <<"ORIGIN", "ORIGINAIRPORT", "ORIGIN_AIRPORT">>],
    [canon |-> "DEST",
     aliases |-> <<"DEST", "DESTAIRPORT", "DEST_AIRPORT">>],
    [canon |-> "ORIGIN_STATE_ABR",
     aliases |-> <<"ORIGIN_STATE_ABR", "ORIGIN_STATE_ABBREVIATION", "ORIGINSTATE",
                   "ORIGIN_STATE">>],
    [canon |-> "DEST_STATE_ABR",
     aliases |-> <<"DEST_STATE_ABR", "DEST_STATE_ABBREVIATION", "DESTSTATE",
                   "DEST_STATE">>],
    [canon |-> "ORIGIN_COUNTRY_NAME",
     aliases |-> <<"ORIGIN_COUNTRY_NAME", "ORIGINCOUNTRYNAME", "ORIGIN_COUNTRY">>],
    [canon |-> "DEST_COUNTRY_NAME",
     aliases |-> <<"DEST_COUNTRY_NAME", "DESTCOUNTRYNAME", "DEST_COUNTRY">>],
    [canon |-> "CRS_DEP_TIME",
     aliases |-> <<"CRS_DEP_TIME", "CRSDEPTIME">>],
    [canon |-> "DEP_TIME",
     aliases |-> <<"DEP_TIME", "DEPTIME">>],
    [canon |-> "WHEELS_OFF",
     aliases |-> <<"WHEELS_OFF", "WHEELSOFF">>],
    [canon |-> "CRS_ARR_TIME",
     aliases |-> <<"CRS_ARR_TIME", "CRSARRTIME">>],
    [canon |-> "ARR_TIME",
     aliases |-> <<"ARR_TIME", "ARRTIME">>],
    [canon |-> "WHEELS_ON",
     aliases |-> <<"WHEELS_ON", "WHEELSON">>],
    [canon |-> "CANCELLED",
     aliases |-> <<"CANCELLED", "CANCELLED_">>],
    [canon |-> "DIVERTED",
     aliases |-> <<"DIVERTED", "DIVERTED_">>]
  >>


----------------------------------------------------------------------------
(* The column names the sources of the model carry. *)

\* column spellings: several spellings of one key, a canonical name with
\* later aliases of the same field, and a column CANON_MAP does not know
NAME_POOL ==
  {"FL_DATE", "fl_date", "FlightDate", "OP_UNIQUE_CARRIER", "OP_CARRIER",
   "Operating_Airline", "Cancelled_", "Tail_Number"}

\* the columns a source file may carry, in file order, with the field of
\* SAMPLE each holds
SOURCE_COLUMNS ==
  <<[name |-> "FlightDate",        field |-> "date"],
    [name |-> "Operating_Airline", field |-> "op"],
    [name |-> "Reporting_Airline", field |-> "mkt"],
    [name |-> "OriginCountryName", field |-> "oc"],
    [name |-> "DestCountryName",   field |-> "dc"],
    [name |-> "OriginState",       field |-> "os"],
    [name |-> "DestState",         field |-> "ds"],
    [name |-> "DepTime",           field |-> "dep"],
    [name |-> "Tail_Number",       field |-> "tail"]>>


SourceNames == {SOURCE_COLUMNS[i].name : i \in DOMAIN SOURCE_COLUMNS}

\* the canonical names
CanonNames == {CANON_MAP[i].canon : i \in DOMAIN CANON_MAP}

KNOWN_NAMES == NAME_POOL \cup SourceNames \cup CanonNames

\* the six time columns and the flight number, which select_output_cols
\* converts with astype("string")
STRING_COLS ==
  <<"CRS_DEP_TIME", "DEP_TIME", "WHEELS_OFF", "CRS_ARR_TIME", "ARR_TIME",
    "WHEELS_ON", "OP_CARRIER_FL_NUM">>

NaN == "NaN"     \* the float nan read_csv gives a missing cell
NA  == "<NA>"    \* pd.NA, the missing value of the "string" dtype
None == ""       \* a column name that is falsy ("if not col")

----------------------------------------------------------------------------
(* Helpers: strings, sequences, frames. *)

LOWER  == "abcdefghijklmnopqrstuvwxyz"
UPPER  == "ABCDEFGHIJKLMNOPQRSTUVWXYZ"
DIGITS == "0123456789"

Chars(s) == {SubSeq(s, i, i) : i \in 1..Len(s)}
ALNUM == Chars(UPPER) \cup Chars(DIGITS)

Min(S) == CHOOSE x \in S : \A y \in S : x <= y
Max(S) == CHOOSE x \in S : \A y \in S : x >= y
Range(s) == {s[i] : i \in DOMAIN s}

\* str.upper() on the ASCII letters
UPPER_OF == [c \in Chars(LOWER) |->
               LET i == CHOOSE k \in 1..Len(LOWER) : SubSeq(LOWER, k, k) = c
               IN SubSeq(UPPER, i, i)]

upper(c) == IF c \in DOMAIN UPPER_OF THEN UPPER_OF[c] ELSE c

\* re.sub(r"[^A-Z0-9]", "", s.upper())
RECURSIVE norm_chars(_)
norm_chars(s) ==
  IF s = "" THEN ""
  ELSE LET c == upper(Head(s))
       IN (IF c \in ALNUM THEN c ELSE "") \o norm_chars(Tail(s))

\* norm_chars of the column names the specifications use, computed once
NORMS == [s \in KNOWN_NAMES |-> norm_chars(s)]

\* _norm(s)
_norm(s) == IF s \in DOMAIN NORMS THEN NORMS[s] ELSE norm_chars(s)

\* pd.DataFrame()
EmptyFrame == [columns |-> <<>>, rows |-> <<>>]

\* df.empty: no column or no row
empty(d) == Len(d.columns) = 0 \/ Len(d.rows) = 0

\* c in df.columns
has(d, c) == \E i \in DOMAIN d.columns : d.columns[i] = c

\* position of the column df[c] reads
col(d, c) == CHOOSE i \in DOMAIN d.columns : d.columns[i] = c

\* df.loc[mask]: the rows whose mask is true, in order
loc(d, mask(_)) == [d EXCEPT !.rows = SelectSeq(d.rows, mask)]

----------------------------------------------------------------------------
(* standardize_columns *)

\* {_norm(c): c for c in df.columns}: a later column replaces an earlier
\* one with the same key
norm_to_actual(cols) ==
  LET norms == [i \in DOMAIN cols |-> _norm(cols[i])]
  IN [n \in Range(norms) |-> cols[Max({i \in DOMAIN cols : norms[i] = n})]]

\* n = _norm(a), for every alias a of every entry of CANON_MAP
ALIAS_NORMS ==
  [i \in DOMAIN CANON_MAP |->
     [k \in DOMAIN CANON_MAP[i].aliases |-> _norm(CANON_MAP[i].aliases[k])]]

\* variant: the aliases are scanned from the last to the first
matched_alias_last(norms, n2a) ==
  LET hits == {k \in DOMAIN norms : norms[k] \in DOMAIN n2a}
  IN IF hits = {} THEN 0 ELSE Max(hits)

\* "for a in aliases: n = _norm(a); if n in norm_to_actual: ...; break":
\* the index of the first alias whose key matches a column, 0 when none does
matched_alias(norms, n2a) ==
  LET hits == {k \in DOMAIN norms : norms[k] \in DOMAIN n2a}
  IN IF hits = {} THEN 0 ELSE Min(hits)

\* the loop over CANON_MAP.items(), from entry i on
RECURSIVE build_rename_map(_, _, _)
build_rename_map(i, n2a, rm) ==
  IF i > Len(CANON_MAP) THEN rm
  ELSE LET k == matched_alias(ALIAS_NORMS[i], n2a)
       IN build_rename_map(i + 1, n2a,
            IF k = 0 THEN rm
            ELSE (n2a[ALIAS_NORMS[i][k]] :> CANON_MAP[i].canon) @@ rm)

rename_map(cols) == build_rename_map(1, norm_to_actual(cols), <<>>)

\* df.rename(columns=rename_map)
rename(cols, rm) ==
  [i \in DOMAIN cols |-> IF cols[i] \in DOMAIN rm THEN rm[cols[i]] ELSE cols[i]]

standardize_columns(d) ==
  [d EXCEPT !.columns = rename(d.columns, rename_map(d.columns))]

----------------------------------------------------------------------------
(* filter_domestic, keep_aa, select_output_cols *)

notna(v) == v # NaN /\ v # NA

\* variant: the state pair is tried before the country pair
filter_domestic_state_first(d0, include_territories) ==
  LET standardized(d) ==
        LET country(r) == /\ r[col(d, "ORIGIN_COUNTRY_NAME")] = "UNITED STATES"
                          /\ r[col(d, "DEST_COUNTRY_NAME")] = "UNITED STATES"
            mask(r) == /\ notna(r[col(d, "ORIGIN_STATE_ABR")])
                       /\ notna(r[col(d, "DEST_STATE_ABR")])
        IN IF has(d, "ORIGIN_STATE_ABR") /\ has(d, "DEST_STATE_ABR")
           THEN loc(d, mask)
           ELSE IF has(d, "ORIGIN_COUNTRY_NAME") /\ has(d, "DEST_COUNTRY_NAME")
           THEN loc(d, country)
           ELSE d
  IN standardized(standardize_columns(d0))

\* variant: the territory test looks at the origin only
filter_domestic_origin_only(d0, include_territories) ==
  LET standardized(d) ==
        LET country(r) == /\ r[col(d, "ORIGIN_COUNTRY_NAME")] = "UNITED STATES"
                          /\ r[col(d, "DEST_COUNTRY_NAME")] = "UNITED STATES"
            mask(r) == /\ notna(r[col(d, "ORIGIN_STATE_ABR")])
                       /\ notna(r[col(d, "DEST_STATE_ABR")])
            mask2(r) == r[col(d, "ORIGIN_STATE_ABR")] \notin US_TERRITORY_STATE_ABR
            both(r) == mask(r) /\ mask2(r)
        IN IF has(d, "ORIGIN_COUNTRY_NAME") /\ has(d, "DEST_COUNTRY_NAME")
           THEN loc(d, country)
           ELSE IF has(d, "ORIGIN_STATE_ABR") /\ has(d, "DEST_STATE_ABR")
           THEN (IF include_territories THEN loc(d, mask) ELSE loc(d, both))
           ELSE d
  IN standardized(standardize_columns(d0))

filter_domestic(d0, include_territories) ==
  LET standardized(d) ==
        LET country(r) == /\ r[col(d, "ORIGIN_COUNTRY_NAME")] = "UNITED STATES"
                          /\ r[col(d, "DEST_COUNTRY_NAME")] = "UNITED STATES"
            mask(r) == /\ notna(r[col(d, "ORIGIN_STATE_ABR")])
                       /\ notna(r[col(d, "DEST_STATE_ABR")])
            mask2(r) == /\ r[col(d, "ORIGIN_STATE_ABR")] \notin US_TERRITORY_STATE_ABR
                        /\ r[col(d, "DEST_STATE_ABR")] \notin US_TERRITORY_STATE_ABR
            both(r) == mask(r) /\ mask2(r)
        IN IF has(d, "ORIGIN_COUNTRY_NAME") /\ has(d, "DEST_COUNTRY_NAME")
           THEN loc(d, country)
           ELSE IF has(d, "ORIGIN_STATE_ABR") /\ has(d, "DEST_STATE_ABR")
           THEN (IF include_territories THEN loc(d, mask) ELSE loc(d, both))
           ELSE d
  IN standardized(standardize_columns(d0))

\* raise KeyError(f"Missing carrier column; have: {list(df.columns)}")
KeyError(cols) == [raised |-> "KeyError", have |-> cols]

raised(r) == "raised" \in DOMAIN r

\* variant: the operating carrier is used whenever it is present
keep_aa_ignores_flag(d0, use_marketing) ==
  LET standardized(d) ==
        LET c == IF has(d, "OP_UNIQUE_CARRIER") THEN "OP_UNIQUE_CARRIER"
                 ELSE IF has(d, "MKT_UNIQUE_CARRIER") THEN "MKT_UNIQUE_CARRIER"
                 ELSE None
            aa(r) == r[col(d, c)] = "AA"
        IN IF c = None THEN KeyError(d.columns) ELSE loc(d, aa)
  IN standardized(standardize_columns(d0))

keep_aa(d0, use_marketing) ==
  LET standardized(d) ==
        LET primary == IF use_marketing THEN "MKT_UNIQUE_CARRIER"
                       ELSE "OP_UNIQUE_CARRIER"
            candidates ==
              (IF primary # "MKT_UNIQUE_CARRIER" THEN <<"MKT_UNIQUE_CARRIER">> ELSE <<>>)
              \o (IF primary # "OP_UNIQUE_CARRIER" THEN <<"OP_UNIQUE_CARRIER">> ELSE <<>>)
            present == SelectSeq(candidates, LAMBDA x : has(d, x))
            c == IF has(d, primary) THEN primary
                 ELSE IF present # <<>> THEN Head(present) ELSE None
            aa(r) == r[col(d, c)] = "AA"
        IN IF c = None THEN KeyError(d.columns) ELSE loc(d, aa)
  IN standardized(standardize_columns(d0))

\* Series.astype("string") on a column of str cells
astype_string(v) == IF v = NaN THEN NA ELSE v

\* variant: the projection keeps the rows when no output column is present
select_output_cols_keeps_rows(d0) ==
  LET standardized(d) ==
        LET cols == SelectSeq(OUTPUT_COLS, LAMBDA x : has(d, x))
        IN [columns |-> cols,
            rows |-> [i \in DOMAIN d.rows |->
                       [j \in DOMAIN cols |->
                         IF cols[j] \in Range(STRING_COLS)
                         THEN astype_string(d.rows[i][col(d, cols[j])])
                         ELSE d.rows[i][col(d, cols[j])]]]]
  IN standardized(standardize_columns(d0))

select_output_cols(d0) ==
  LET standardized(d) ==
        LET cols == SelectSeq(OUTPUT_COLS, LAMBDA x : has(d, x))
        IN IF cols = <<>> THEN EmptyFrame
           ELSE [columns |-> cols,
                 rows |-> [i \in DOMAIN d.rows |->
                            [j \in DOMAIN cols |->
                              IF cols[j] \in Range(STRING_COLS)
                              THEN astype_string(d.rows[i][col(d, cols[j])])
                              ELSE d.rows[i][col(d, cols[j])]]]]
  IN standardized(standardize_columns(d0))
SAMPLE ==
  <<
    [date |-> "2023-01-01", op |-> "AA", mkt |-> "AA", oc |-> "UNITED STATES", dc |-> "UNITED STATES",
     os |-> NaN, ds |-> "TX", dep |-> "0930", tail |-> "N101"],
    [date |-> "2023-01-02", op |-> "DL", mkt |-> "AA", oc |-> "UNITED STATES", dc |-> "CANADA",
     os |-> "NY", ds |-> "GU", dep |-> NaN, tail |-> "N102"],
    [date |-> "2023-01-03", op |-> "AA", mkt |-> "DL", oc |-> "UNITED STATES", dc |-> NaN,
     os |-> "PR", ds |-> NaN, dep |-> "0930", tail |-> "N103"],
    [date |-> "2023-01-04", op |-> "DL", mkt |-> "DL", oc |-> "CANADA", dc |-> "UNITED STATES",
     os |-> NaN, ds |-> "GU", dep |-> NaN, tail |-> "N104"],
    [date |-> "2023-01-05", op |-> "AA", mkt |-> "AA", oc |-> "CANADA", dc |-> "CANADA",
     os |-> "NY", ds |-> NaN, dep |-> "0930", tail |-> "N105"],
    [date |-> "2023-01-06", op |-> "DL", mkt |-> "AA", oc |-> "CANADA", dc |-> NaN,
     os |-> "PR", ds |-> "TX", dep |-> NaN, tail |-> "N106"],
    [date |-> "2023-01-07", op |-> "AA", mkt |-> "DL", oc |-> NaN, dc |-> "UNITED STATES",
     os |-> "NY", ds |-> "TX", dep |-> "0930", tail |-> "N107"],
    [date |-> "2023-01-08", op |-> "DL", mkt |-> "DL", oc |-> NaN, dc |-> "CANADA",
     os |-> NaN, ds |-> NaN, dep |-> NaN, tail |-> "N108"],
    [date |-> "2023-01-09", op |-> "aa", mkt |-> "AA", oc |-> NaN, dc |-> NaN,
     os |-> "PR", ds |-> "GU", dep |-> "0930", tail |-> "N109"]
  >>

----------------------------------------------------------------------------
(* Inputs of the single-call specifications. *)

RECURSIVE SeqsUpTo(_, _)
SeqsUpTo(S, n) ==
  IF n = 0 THEN {<<>>}
  ELSE LET shorter == SeqsUpTo(S, n - 1)
       IN shorter \cup {Append(s, x) : s \in shorter, x \in S}

\* the frame read_csv(dtype=str) builds from the columns in `names` and
\* the records `recs`
Frame(names, recs) ==
  LET cs == SelectSeq(SOURCE_COLUMNS, LAMBDA c : c.name \in names)
  IN [columns |-> [j \in DOMAIN cs |-> cs[j].name],
      rows |-> [i \in DOMAIN recs |-> [j \in DOMAIN cs |-> recs[i][cs[j].field]]]]

\* batches of up to MaxRows consecutive sample rows under every header that
\* has the unmapped column
Windows ==
  {w \in (1..Len(SAMPLE)) \X (0..MaxRows) : w[1] + w[2] - 1 <= Len(SAMPLE)}

InputBatches ==
  {Frame(names \cup {"Tail_Number"}, SubSeq(SAMPLE, w[1], w[1] + w[2] - 1)) :
     names \in SUBSET SourceNames, w \in Windows}

NoCall == [fn |-> "none", flag |-> FALSE]

FnIdle ==
  /\ batch = EmptyFrame /\ call = NoCall /\ ret = EmptyFrame /\ ret2 = EmptyFrame

RunIdle ==
  /\ pc = "idle" /\ args = [use_marketing |-> FALSE, append_out |-> FALSE]
  /\ unit = 0 /\ frames = <<>> /\ header_written = FALSE /\ exit_code = -1
  /\ header = {} /\ nread = 0 /\ eof = FALSE /\ parts = <<>>
  /\ out = <<>> /\ appends = <<>>
  /\ total = 0 /\ pending = <<>> /\ log = <<>>

----------------------------------------------------------------------------
(* SpecStd: standardize_columns applied once, then again to its result. *)

InitStd ==
  /\ batch \in {[columns |-> cs, rows |-> <<>>] : cs \in SeqsUpTo(NAME_POOL, MaxCols)}
  /\ call = NoCall /\ ret = EmptyFrame /\ ret2 = EmptyFrame
  /\ RunIdle

Reconcile ==
  /\ call.fn = "none"
  /\ ret' = standardize_columns(batch)
  /\ call' = [call EXCEPT !.fn = "standardize_columns"]
  /\ UNCHANGED <<batch, ret2, runvars>>

ReconcileAgain ==
  /\ call.fn = "standardize_columns"
  /\ ret2' = standardize_columns(ret)
  /\ call' = [call EXCEPT !.fn = "twice"]
  /\ UNCHANGED <<batch, ret, runvars>>

NextStd == Reconcile \/ ReconcileAgain

SpecStd == InitStd /\ [][NextStd]_vars

----------------------------------------------------------------------------
(* SpecFn: one call of filter_domestic, keep_aa or select_output_cols. *)

InitFn ==
  /\ batch \in InputBatches
  /\ call = NoCall /\ ret = EmptyFrame /\ ret2 = EmptyFrame
  /\ RunIdle

CallFilterDomestic ==
  \E include_territories \in BOOLEAN :
    /\ call.fn = "none"
    /\ ret' = filter_domestic(batch, include_territories)
    /\ call' = [fn |-> "filter_domestic", flag |-> include_territories]
    /\ UNCHANGED <<batch, ret2, runvars>>

CallKeepAA ==
  \E use_marketing \in BOOLEAN :
    /\ call.fn = "none"
    /\ ret' = keep_aa(batch, use_marketing)
    /\ call' = [fn |-> "keep_aa", flag |-> use_marketing]
    /\ UNCHANGED <<batch, ret2, runvars>>

CallSelectOutputCols ==
  /\ call.fn = "none"
  /\ ret' = select_output_cols(batch)
  /\ call' = [fn |-> "select_output_cols", flag |-> FALSE]
  /\ UNCHANGED <<batch, ret2, runvars>>

NextFn == CallFilterDomestic \/ CallKeepAA \/ CallSelectOutputCols

SpecFn == InitFn /\ [][NextFn]_vars

----------------------------------------------------------------------------
(* Claims about the single calls. *)

\* the canonical field a column spelling stands for, None when unmapped
CanonOf(name) ==
  LET n == _norm(name)
      hit == {i \in DOMAIN CANON_MAP :
                \E k \in DOMAIN ALIAS_NORMS[i] : ALIAS_NORMS[i][k] = n}
  IN IF hit = {} THEN None ELSE CANON_MAP[Min(hit)].canon

\* the canonical field of every source column
SOURCE_CANON == [n \in SourceNames |-> CanonOf(n)]

\* the cell of row r of the input batch that holds canonical field c
Cell(r, c) ==
  r[CHOOSE j \in DOMAIN batch.columns : SOURCE_CANON[batch.columns[j]] = c]

Present(c) == \E j \in DOMAIN batch.columns : SOURCE_CANON[batch.columns[j]] = c

CountryPair == Present("ORIGIN_COUNTRY_NAME") /\ Present("DEST_COUNTRY_NAME")
StatePair   == Present("ORIGIN_STATE_ABR") /\ Present("DEST_STATE_ABR")

IsNull(v) == v = NaN \/ v = NA
Territory(v) == v \in {"PR", "VI", "GU", "AS", "MP"}

\* C4: reconciling twice gives the column names of reconciling once, in the
\* same positions, and a batch whose columns are all canonical names keeps
\* its column names.
C4_ReconcileIdempotent ==
  /\ call.fn = "twice" => ret2.columns = ret.columns
  /\ (call.fn # "none" /\ \A i \in DOMAIN batch.columns : batch.columns[i] \in CanonNames)
       => ret.columns = batch.columns

\* C4 witness: two spellings of one key, one of them renamed by the first
\* pass, and the second pass done.
C4_Witness ==
  /\ call.fn = "twice"
  /\ ret.columns # batch.columns
  /\ \E i, j \in DOMAIN batch.columns :
       /\ batch.columns[i] # batch.columns[j]
       /\ _norm(batch.columns[i]) = _norm(batch.columns[j])

\* the carrier field C1 says is used
CarrierField(prefer_marketing) ==
  IF Present("OP_UNIQUE_CARRIER") /\ Present("MKT_UNIQUE_CARRIER")
  THEN (IF prefer_marketing THEN "MKT_UNIQUE_CARRIER" ELSE "OP_UNIQUE_CARRIER")
  ELSE IF Present("OP_UNIQUE_CARRIER") THEN "OP_UNIQUE_CARRIER"
  ELSE "MKT_UNIQUE_CARRIER"

\* C1: keep_aa filters on the marketing field when both carrier fields are
\* present and the flag is set, on the operating field when both are present
\* and the flag is clear, on the only one present otherwise; with neither it
\* raises the error that lists the reconciled columns and returns no batch.
C1_CarrierFieldResolution ==
  call.fn = "keep_aa" =>
    IF ~Present("OP_UNIQUE_CARRIER") /\ ~Present("MKT_UNIQUE_CARRIER")
    THEN /\ raised(ret)
         /\ ret.have = standardize_columns(batch).columns
    ELSE /\ ~raised(ret)
         /\ ret.rows = SelectSeq(batch.rows,
                         LAMBDA r : Cell(r, CarrierField(call.flag)) = "AA")

\* C1 witness: both carrier fields present, the marketing one preferred, and
\* the rows kept differ from those the operating field would keep.
C1_Witness ==
  /\ call.fn = "keep_aa" /\ call.flag
  /\ Present("OP_UNIQUE_CARRIER") /\ Present("MKT_UNIQUE_CARRIER")
  /\ ~raised(ret)
  /\ ret.rows # <<>>
  /\ ret.rows # SelectSeq(batch.rows, LAMBDA r : Cell(r, "OP_UNIQUE_CARRIER") = "AA")

\* C2: filter_domestic takes the country branch whenever the country pair is
\* present (the state cells are then not read), the state branch when only
\* the state pair is present (no row with a missing state survives, every
\* row with two states outside the territories does), and returns every row
\* when neither pair is present.
C2_BranchBySchema ==
  call.fn = "filter_domestic" =>
    IF CountryPair
    THEN ret.rows = SelectSeq(batch.rows, LAMBDA r :
                      /\ Cell(r, "ORIGIN_COUNTRY_NAME") = "UNITED STATES"
                      /\ Cell(r, "DEST_COUNTRY_NAME") = "UNITED STATES")
    ELSE IF StatePair
    THEN /\ \A i \in DOMAIN ret.rows :
              /\ ~IsNull(Cell(ret.rows[i], "ORIGIN_STATE_ABR"))
              /\ ~IsNull(Cell(ret.rows[i], "DEST_STATE_ABR"))
         /\ \A i \in DOMAIN batch.rows :
              ( /\ ~IsNull(Cell(batch.rows[i], "ORIGIN_STATE_ABR"))
                /\ ~IsNull(Cell(batch.rows[i], "DEST_STATE_ABR"))
                /\ ~Territory(Cell(batch.rows[i], "ORIGIN_STATE_ABR"))
                /\ ~Territory(Cell(batch.rows[i], "DEST_STATE_ABR")) )
              => \E k \in DOMAIN ret.rows : ret.rows[k] = batch.rows[i]
    ELSE ret.rows = batch.rows

\* C2 witness: both pairs present and a row with a missing state kept by the
\* country branch.
C2_Witness ==
  /\ call.fn = "filter_domestic"
  /\ CountryPair /\ StatePair
  /\ \E i \in DOMAIN ret.rows : IsNull(Cell(ret.rows[i], "ORIGIN_STATE_ABR"))

\* C3: in the state branch a row is kept iff both states are present and,
\* when include_territories is false, neither is a territory.
C3_StateBranch ==
  (call.fn = "filter_domestic" /\ ~CountryPair /\ StatePair) =>
    ret.rows = SelectSeq(batch.rows, LAMBDA r :
                 /\ ~IsNull(Cell(r, "ORIGIN_STATE_ABR"))
                 /\ ~IsNull(Cell(r, "DEST_STATE_ABR"))
                 /\ (call.flag \/ ( /\ ~Territory(Cell(r, "ORIGIN_STATE_ABR"))
                                    /\ ~Territory(Cell(r, "DEST_STATE_ABR")) )))

\* C3 witness: include_territories false, a row from PR to a state dropped
\* and a row between two states kept.
C3_Witness ==
  /\ call.fn = "filter_domestic" /\ ~call.flag
  /\ ~CountryPair /\ StatePair
  /\ \E i \in DOMAIN batch.rows :
       /\ Cell(batch.rows[i], "ORIGIN_STATE_ABR") = "PR"
       /\ Cell(batch.rows[i], "DEST_STATE_ABR") = "TX"
       /\ \A k \in DOMAIN ret.rows : ret.rows[k] # batch.rows[i]
  /\ ret.rows # <<>>

\* the output columns C5 names: the canonical fields present, in the order
\* of OUTPUT_COLS
ProjectedCols == SelectSeq(OUTPUT_COLS, Present)

\* the projection kept every row, in order, cell for cell
RowsProjected ==
  /\ ret.columns = ProjectedCols
  /\ Len(ret.rows) = Len(batch.rows)
  /\ \A i \in DOMAIN ret.rows : \A j \in DOMAIN ret.columns :
       \/ ret.rows[i][j] = Cell(batch.rows[i], ret.columns[j])
       \/ IsNull(ret.rows[i][j]) /\ IsNull(Cell(batch.rows[i], ret.columns[j]))

\* C5 as stated: select_output_cols keeps the row count and the row order of
\* every batch and only reduces the columns.
C5_ProjectionKeepsRows ==
  call.fn = "select_output_cols" => RowsProjected

\* C5 as amended: the same for a batch with at least one output column; a
\* batch with none gives the empty frame, with no row and no column.
C5_ProjectionOrEmptyFrame ==
  call.fn = "select_output_cols" =>
    IF ProjectedCols # <<>> THEN RowsProjected ELSE ret = EmptyFrame

\* C5 witness: rows in, no output column, the empty frame out.
C5_Witness ==
  /\ call.fn = "select_output_cols"
  /\ batch.rows # <<>> /\ ProjectedCols = <<>>
  /\ ret = EmptyFrame

----------------------------------------------------------------------------
(* process_month, append_write and main *)

\* the columns of the frames fs, each at its first appearance
RECURSIVE union_columns(_, _)
union_columns(fs, acc) ==
  IF fs = <<>> THEN acc
  ELSE union_columns(Tail(fs),
         acc \o SelectSeq(Head(fs).columns, LAMBDA c : c \notin Range(acc)))

\* the rows of the frames fs, one frame after the other, laid out on cols
RECURSIVE reindexed_rows(_, _)
reindexed_rows(fs, cols) ==
  IF fs = <<>> THEN <<>>
  ELSE LET f == Head(fs)
       IN [i \in DOMAIN f.rows |->
            [j \in DOMAIN cols |->
              IF has(f, cols[j]) THEN f.rows[i][col(f, cols[j])]
              ELSE IF cols[j] \in Range(STRING_COLS) THEN NA ELSE NaN]]
          \o reindexed_rows(Tail(fs), cols)

\* variant: the frames are concatenated last to first
concat_reversed(fs) ==
  LET rev == [i \in DOMAIN fs |-> fs[Len(fs) + 1 - i]]
      cols == union_columns(rev, <<>>)
  IN [columns |-> cols, rows |-> reindexed_rows(rev, cols)]

\* pd.concat(frames, ignore_index=True)
concat(fs) ==
  LET cols == union_columns(fs, <<>>)
  IN [columns |-> cols, rows |-> reindexed_rows(fs, cols)]

\* df.to_csv(path, index=False, header=header) appended to the lines of file
to_csv(d, file, with_header) ==
  file
  \o (IF with_header THEN <<[line |-> "header", cells |-> d.columns]>> ELSE <<>>)
  \o [i \in DOMAIN d.rows |-> [line |-> "row", cells |-> d.rows[i]]]

\* variant: an empty frame marks the header as written
append_write_marks_empty(d, file, hw) ==
  IF empty(d) THEN [header_written |-> TRUE, file |-> file, wrote |-> FALSE]
  ELSE [header_written |-> TRUE, file |-> to_csv(d, file, ~hw), wrote |-> TRUE]

\* append_write(df, out_path, header_written): the flag it returns, the file
\* it leaves, and whether it called to_csv
append_write(d, file, hw) ==
  IF empty(d) THEN [header_written |-> hw, file |-> file, wrote |-> FALSE]
  ELSE [header_written |-> TRUE, file |-> to_csv(d, file, ~hw), wrote |-> TRUE]

\* the rows the monthly files are made of
RUN_ROWS ==
  <<[op |-> "AA", mkt |-> "DL", oc |-> "UNITED STATES", dc |-> "UNITED STATES",
     os |-> "NY", ds |-> "TX", dep |-> "0930", tail |-> "N101"],
    [op |-> "DL", mkt |-> "AA", oc |-> "UNITED STATES", dc |-> "UNITED STATES",
     os |-> "PR", ds |-> "NY", dep |-> NaN, tail |-> "N102"],
    [op |-> "AA", mkt |-> "AA", oc |-> "UNITED STATES", dc |-> "CANADA",
     os |-> "NY", ds |-> NaN, dep |-> "1045", tail |-> "N103"]>>

\* the headers of the monthly files: both carrier fields with the country
\* pair, the reporting carrier with the state pair, and no carrier field
RUN_HEADERS ==
  {{"FlightDate", "Operating_Airline", "Reporting_Airline", "OriginCountryName",
    "DestCountryName", "Tail_Number"},
   {"FlightDate", "Reporting_Airline", "OriginState", "DestState", "DepTime"},
   {"FlightDate", "OriginState", "DestState", "DepTime"}}

\* the date cell of row i of chunk c of unit u, which tells the rows apart
RowDate(u, c, i) == ToString(u) \o "-" \o ToString(c) \o "-" \o ToString(i)

ChunkRecords(kinds) ==
  [i \in DOMAIN kinds |->
     [f \in {"date"} \cup DOMAIN RUN_ROWS[kinds[i]] |->
        IF f = "date" THEN RowDate(unit, nread + 1, i) ELSE RUN_ROWS[kinds[i]][f]]]

\* --include_territories is store_true with default True: always True
include_territories == TRUE

\* the result of one pass of the chunk loop of process_month on chunk:
\* the KeyError of keep_aa, or the projected frame
pipeline(chunk) ==
  LET projected(c3) == IF raised(c3) THEN c3 ELSE select_output_cols(c3)
  IN projected(keep_aa(filter_domestic(standardize_columns(chunk),
                                       include_territories),
                       args.use_marketing))

\* the ids the pass is to contribute, from the fields of the records
PassIds(names, recs) ==
  LET domestic(r) ==
        IF {"OriginCountryName", "DestCountryName"} \subseteq names
        THEN r.oc = "UNITED STATES" /\ r.dc = "UNITED STATES"
        ELSE IF {"OriginState", "DestState"} \subseteq names
        THEN r.os # NaN /\ r.ds # NaN
        ELSE TRUE
      carrier(r) ==
        IF {"Operating_Airline", "Reporting_Airline"} \subseteq names
        THEN (IF args.use_marketing THEN r.mkt ELSE r.op) = "AA"
        ELSE IF "Operating_Airline" \in names THEN r.op = "AA"
        ELSE r.mkt = "AA"
      kept == SelectSeq(recs, LAMBDA r : domestic(r) /\ carrier(r))
  IN [i \in DOMAIN kept |-> kept[i].date]

HasCarrier(names) ==
  "Operating_Airline" \in names \/ "Reporting_Airline" \in names

Logged(status, names, ids) == [status |-> status, names |-> names, ids |-> ids]

\* variant: main() appends every result to frames, in append mode too
main_deliver_keeps_frames(dfm) ==
  LET w == append_write(dfm, out, header_written)
  IN /\ IF args.append_out
        THEN /\ header_written' = w.header_written
             /\ out' = w.file
             /\ appends' = IF w.wrote
                           THEN Append(appends, [header |-> ~header_written,
                                                 rows |-> Len(dfm.rows)])
                           ELSE appends
             /\ frames' = Append(frames, dfm)
        ELSE /\ frames' = IF ~empty(dfm) THEN Append(frames, dfm) ELSE frames
             /\ UNCHANGED <<header_written, out, appends>>
     /\ unit' = unit + 1
     /\ pc' = "main"
     /\ header' = {} /\ nread' = 0 /\ eof' = FALSE /\ parts' = <<>>
     /\ UNCHANGED exit_code

\* main() after process_month returned dfm: append_write in append mode,
\* frames.append(dfm) of a non-empty dfm otherwise; then the next month.
\* appends records the to_csv calls and the header each asked for.
main_deliver(dfm) ==
  LET w == append_write(dfm, out, header_written)
  IN /\ IF args.append_out
        THEN /\ header_written' = w.header_written
             /\ out' = w.file
             /\ appends' = IF w.wrote
                           THEN Append(appends, [header |-> ~header_written,
                                                 rows |-> Len(dfm.rows)])
                           ELSE appends
             /\ UNCHANGED frames
        ELSE /\ frames' = IF ~empty(dfm) THEN Append(frames, dfm) ELSE frames
             /\ UNCHANGED <<header_written, out, appends>>
     /\ unit' = unit + 1
     /\ pc' = "main"
     /\ header' = {} /\ nread' = 0 /\ eof' = FALSE /\ parts' = <<>>
     /\ UNCHANGED exit_code

\* variant: main() has no handler, the exception ends the run
main_no_handler ==
  /\ pc' = "done"
  /\ exit_code' = 1
  /\ header' = {} /\ nread' = 0 /\ eof' = FALSE /\ parts' = <<>>
  /\ UNCHANGED <<unit, frames, header_written, out, appends>>

\* "except Exception as e: print(...)" in main(): the locals of
\* process_month (the reader, parts) are gone, the loop goes on
main_except ==
  /\ unit' = unit + 1
  /\ pc' = "main"
  /\ header' = {} /\ nread' = 0 /\ eof' = FALSE /\ parts' = <<>>
  /\ UNCHANGED <<frames, header_written, out, appends, exit_code>>

Init ==
  /\ FnIdle
  /\ pc = "main"
  /\ args \in [use_marketing : BOOLEAN, append_out : BOOLEAN]
  /\ unit = 1 /\ frames = <<>> /\ header_written = FALSE /\ exit_code = -1
  /\ header = {} /\ nread = 0 /\ eof = FALSE /\ parts = <<>>
  /\ out = <<>> /\ appends = <<>>
  /\ total = 0 /\ pending = <<>> /\ log = <<>>

\* process_month returns pd.DataFrame() before reading: no URL, an empty
\* download, or no CSV in the ZIP
MonthUnavailable ==
  /\ pc = "main" /\ unit <= MaxUnits
  /\ main_deliver(EmptyFrame)
  /\ log' = Append(log, Logged("unavailable", {}, <<>>))
  /\ UNCHANGED <<args, total, pending, fnvars>>

\* process_month opens the CSV of the month
OpenMonth ==
  /\ pc = "main" /\ unit <= MaxUnits
  /\ header' \in RUN_HEADERS
  /\ nread' = 0 /\ eof' = FALSE /\ parts' = <<>> /\ pending' = <<>>
  /\ pc' = "reading"
  /\ UNCHANGED <<args, unit, frames, header_written, exit_code, out, appends,
                 total, log, fnvars>>

\* one pass of "for chunk in reader": the chunk goes through the pipeline;
\* the KeyError of keep_aa leaves process_month and is caught in main()
ReadChunk ==
  /\ pc = "reading" /\ ~eof /\ total < MaxChunks
  /\ \E n \in 1..chunksize : \E kinds \in [1..n -> DOMAIN RUN_ROWS] :
       LET passed(recs, res) ==
             IF raised(res)
             THEN /\ main_except
                  /\ pending' = <<>>
                  /\ log' = Append(log, Logged("KeyError", header, <<>>))
             ELSE /\ parts' = IF ~empty(res) THEN Append(parts, res) ELSE parts
                  /\ pending' = pending \o PassIds(header, recs)
                  /\ nread' = nread + 1
                  /\ eof' = (n < chunksize)
                  /\ UNCHANGED <<pc, unit, frames, header_written, exit_code,
                                 header, out, appends, log>>
       IN passed(ChunkRecords(kinds), pipeline(Frame(header, ChunkRecords(kinds))))
  /\ total' = total + 1
  /\ UNCHANGED <<args, fnvars>>

\* the reader fails while the next chunk is pulled (a malformed line, a
\* damaged archive): the exception is caught in main()
ReadFails ==
  /\ pc = "reading" /\ ~eof
  /\ main_except
  /\ pending' = <<>>
  /\ log' = Append(log, Logged("ReadError", {}, <<>>))
  /\ UNCHANGED <<args, total, fnvars>>

\* the reader is exhausted: process_month returns pd.DataFrame() or
\* pd.concat(parts), and main() takes it
FinishMonth ==
  /\ pc = "reading"
  /\ main_deliver(IF parts = <<>> THEN EmptyFrame ELSE concat(parts))
  /\ pending' = <<>>
  /\ log' = Append(log, Logged("ok", {}, pending))
  /\ UNCHANGED <<args, total, fnvars>>

\* append mode, after the loops: "[OK] Appended CSV written", return
FinishAppend ==
  /\ pc = "main" /\ unit > MaxUnits /\ args.append_out
  /\ pc' = "done"
  /\ exit_code' = 0
  /\ UNCHANGED <<args, unit, frames, header_written, header, nread, eof, parts,
                 out, appends, total, pending, log, fnvars>>

\* "if not frames: print('[ERROR] No data collected...'); sys.exit(2)"
ExitNoData ==
  /\ pc = "main" /\ unit > MaxUnits /\ ~args.append_out
  /\ frames = <<>>
  /\ pc' = "done"
  /\ exit_code' = 2
  /\ UNCHANGED <<args, unit, frames, header_written, header, nread, eof, parts,
                 out, appends, total, pending, log, fnvars>>

\* all_df = pd.concat(frames); all_df.to_csv(args.out, index=False)
WriteAll ==
  /\ pc = "main" /\ unit > MaxUnits /\ ~args.append_out
  /\ frames # <<>>
  /\ out' = to_csv(concat(frames), <<>>, TRUE)
  /\ pc' = "done"
  /\ exit_code' = 0
  /\ UNCHANGED <<args, unit, frames, header_written, header, nread, eof, parts,
                 appends, total, pending, log, fnvars>>

Next ==
  \/ MonthUnavailable
  \/ OpenMonth
  \/ ReadChunk
  \/ ReadFails
  \/ FinishMonth
  \/ FinishAppend
  \/ ExitNoData
  \/ WriteAll

Spec == Init /\ [][Next]_vars

----------------------------------------------------------------------------
(* Claims about the run. *)

RECURSIVE Flatten(_)
Flatten(ss) == IF ss = <<>> THEN <<>> ELSE Head(ss) \o Flatten(Tail(ss))

\* the date cells of the rows of a frame, and of the row lines of a file
FrameIds(f) == [i \in DOMAIN f.rows |-> f.rows[i][col(f, "FL_DATE")]]
FileIds(file) ==
  LET rows == SelectSeq(file, LAMBDA l : l.line = "row")
  IN [i \in DOMAIN rows |-> rows[i].cells[1]]
FramesIds(fs) == Flatten([k \in DOMAIN fs |-> FrameIds(fs[k])])

\* the rows the months processed without failure hold that pass the
\* filters, in source order
Expected == Flatten([u \in DOMAIN log |-> log[u].ids])

Contributing == {u \in DOMAIN log : log[u].ids # <<>>}

\* C6: in append mode the header is asked for on the first to_csv call and
\* on no other, to_csv is called once per non-empty monthly result, and the
\* flag is set exactly when a call has been made: an empty or failed month
\* leaves it as it was.
C6_HeaderOnFirstAppendOnly ==
  /\ \A i \in DOMAIN appends : appends[i].header = (i = 1) /\ appends[i].rows > 0
  /\ header_written = (appends # <<>>)
  /\ args.append_out => Len(appends) = Cardinality(Contributing)
  /\ ~args.append_out => appends = <<>>
  /\ args.append_out =>
       \A k \in DOMAIN out : (out[k].line = "header") = (k = 1)

\* C6 witness: two appends, the first with the header, the second without.
C6_Witness ==
  /\ args.append_out
  /\ Len(appends) >= 2 /\ appends[1].header /\ ~appends[2].header

\* what has reached the output, or is held for it until the end of the run
Delivered ==
  IF args.append_out \/ pc = "done" THEN FileIds(out) ELSE FramesIds(frames)

\* C7: a month whose file has no carrier column fails as a whole (it has no
\* batch that succeeds: once a batch of a file has passed, the header has a
\* carrier column), the rows of every month that did not fail are delivered,
\* and every month is processed whatever failed before it.
C7_SchemaFailureIsolated ==
  /\ \A u \in DOMAIN log : log[u].status = "KeyError" => ~HasCarrier(log[u].names)
  /\ (pc = "reading" /\ nread > 0) => HasCarrier(header)
  /\ \A u \in DOMAIN log : \A i \in DOMAIN log[u].ids :
       \E k \in DOMAIN Delivered : Delivered[k] = log[u].ids[i]
  /\ pc = "done" => Len(log) = MaxUnits

\* C7 witness: a month failed with the KeyError, a later month contributed
\* rows, and the run is over with them in the output.
C7_Witness ==
  /\ pc = "done" /\ exit_code = 0
  /\ \E v, w \in DOMAIN log :
       /\ v < w
       /\ log[v].status = "KeyError" /\ log[w].ids # <<>>
       /\ \E k \in DOMAIN out : out[k].line = "row" /\ out[k].cells[1] = log[w].ids[1]

\* C8 as stated: a run in which no month produced output ends in a failure
\* exit, in both modes.
C8_EmptyResultFatal ==
  (pc = "done" /\ Contributing = {}) => exit_code # 0

C10_SourceOrder ==
  /\ FramesIds(parts) = pending
  /\ IF args.append_out THEN FileIds(out) = Expected
     ELSE /\ FramesIds(frames) = Expected
          /\ (pc = "done" /\ exit_code = 0) => FileIds(out) = Expected
          /\ (pc = "done" /\ exit_code # 0) => Expected = <<>> /\ out = <<>>

\* C10 witness: a finished run whose output has three rows of the two
\* chunks of a month, a fourth row having been filtered out.
C10_Witness ==
  /\ pc = "done" /\ exit_code = 0
  /\ \E u \in DOMAIN log :
       /\ Len(log[u].ids) = 3
       /\ \E i, j \in DOMAIN log[u].ids :
            log[u].ids[i] = RowDate(u, 1, 2) /\ log[u].ids[j] = RowDate(u, 2, 1)
       /\ FileIds(out) = log[u].ids
====
